---- MODULE Spec2Model ----
(***************************************************************************)
(* Model of video2mp4: the WebSocket server (websocket_server.py) with its *)
(* task map, upload map and live-connection set, and the conversion runner *)
(* (core.py convert_video) that each convert request starts on a worker.   *)
(***************************************************************************)
EXTENDS Integers, Sequences, FiniteSets, TLC

(* ----------------------------- bounds ---------------------------------- *)
MaxTasks == 2        \* convert requests accepted in one run
MaxUploads == 2      \* destination files opened in one run
MaxBytes == 3        \* bytes one upload session receives
MaxLines == 2        \* progress lines one ffmpeg process prints
MaxReqs == 4         \* client messages handled in one run

\* the websocket objects of a run, numbered in the order they connect
Conns == {1, 2}

(* ------------------------- values and inputs --------------------------- *)
\* Python None as a request field that is absent (data.get(...) -> None)
None == <<>>

\* f"{id(websocket)}_{len(self.tasks)}": the identity of the websocket object
\* and a decimal count joined by "_"; the pair is the string's content.
MakeId(ws, n) == <<ws, n>>

\* self.upload_dir, a path relative to the working directory
upload_dir == <<"uploads">>

\* file_name values a client sends, as path components; "/" first = absolute
FileNames == { <<>>, <<"a">>, <<"..", "a">>, <<"/", "a">> }
\* file_size values a client sends (0 is also the default when omitted)
FileSizes == {0, 2}
\* input_file / output_file values of a convert request ("" = missing)
InputFiles == {"", "in.mov"}
OutputFiles == {"", "out.mp4"}

\* base64 text as alphabet indices (A=0 .. /=63), 64 is the pad "="
Pad == 64
\* "" (missing), "AQ==" , "AgM=" , "AQ" (incorrect padding)
Chunks == { <<>>, <<0, 16, Pad, Pad>>, <<0, 32, 12, Pad>>, <<0, 16>> }

Min(a, b) == IF a < b THEN a ELSE b

(* ------------------------------ os.path -------------------------------- *)
\* os.path.join(a, b): an absolute b discards a
PathJoin(a, b) == IF Len(b) > 0 /\ b[1] = "/" THEN b ELSE a \o b

\* os.path.normpath on components: "x/.." collapses, leading ".." stays,
\* ".." at the filesystem root is dropped
RECURSIVE NormFrom(_, _)
NormFrom(done, rest) ==
  IF rest = <<>> THEN done
  ELSE LET h == Head(rest) IN
       IF h # ".." THEN NormFrom(Append(done, h), Tail(rest))
       ELSE IF done = <<>> THEN NormFrom(<<"..">>, Tail(rest))
       ELSE IF done[Len(done)] = ".." THEN NormFrom(Append(done, h), Tail(rest))
       ELSE IF done[Len(done)] = "/" THEN NormFrom(done, Tail(rest))
       ELSE NormFrom(SubSeq(done, 1, Len(done) - 1), Tail(rest))
NormPath(p) == NormFrom(<<>>, p)

\* the file a path names: resolved, so two spellings of one file are equal
RealPath(p) == NormPath(p)

\* a path lies inside the upload root
InsideRoot(p) ==
  LET n == NormPath(p) IN Len(n) > Len(upload_dir)
                          /\ SubSeq(n, 1, Len(upload_dir)) = upload_dir

(* ------------------------------ base64 --------------------------------- *)
\* base64.b64decode: groups of four symbols give three bytes; "==" / "="
\* at the end shorten the last group; any other length raises binascii.Error
B64Valid(s) ==
  /\ Len(s) % 4 = 0
  /\ \A i \in 1..Len(s) : s[i] = Pad => /\ i > Len(s) - 2
                                        /\ \A j \in i..Len(s) : s[j] = Pad
B64Group(g) ==
  LET v(i) == IF g[i] = Pad THEN 0 ELSE g[i]
      n == v(1) * 262144 + v(2) * 4096 + v(3) * 64 + v(4)
      b == << n \div 65536, (n \div 256) % 256, n % 256 >>
      k == IF g[3] = Pad THEN 1 ELSE IF g[4] = Pad THEN 2 ELSE 3
  IN SubSeq(b, 1, k)
RECURSIVE b64decode(_)
b64decode(s) ==
  IF s = <<>> THEN <<>> ELSE B64Group(SubSeq(s, 1, 4)) \o b64decode(SubSeq(s, 5, Len(s)))

(* --------------------------- file objects ------------------------------ *)
\* bytes written at a position of a file: a gap past the end reads as zeros
RECURSIVE Zeros(_)
Zeros(n) == IF n <= 0 THEN <<>> ELSE <<0>> \o Zeros(n - 1)
WriteAt(content, pos, data) ==
  LET base == IF Len(content) < pos THEN content \o Zeros(pos - Len(content))
              ELSE content
  IN SubSeq(base, 1, pos) \o data \o SubSeq(base, pos + Len(data) + 1, Len(base))

(* -------------------------- conversion inputs -------------------------- *)
\* what the host answers when convert_video probes it before spawning
\* ("ffmpeg_denied": an ffmpeg on the PATH that may not be executed, so the
\* probe's subprocess.run raises PermissionError)
PreLaunch == {"no_ffmpeg", "ffmpeg_denied", "no_input", "not_file",
              "mkdir_failed", "spawn_failed", "spawned"}
\* get_video_duration results in seconds (0 = probe failed)
Durations == {0, 2}
\* out_time_ms values ffmpeg prints (microseconds); int() takes a sign
TimeVals == {-1000000, 1000000, 3000000}
\* how reading the progress stream ends: process.returncode 0, non-zero,
\* or an exception raised while reading
ExitOutcomes == {"exit_0", "exit_nonzero", "exception"}
\* lines of the progress stream: key, whether the value parses as an int, value
Lines == {[key |-> "out_time_ms", int |-> TRUE, value |-> t] : t \in TimeVals}
         \cup {[key |-> "out_time_ms", int |-> FALSE, value |-> 0],
               [key |-> "frame", int |-> TRUE, value |-> 1]}

\* what the conversions a server run starts meet: a missing input or a
\* process that prints one progress line and exits
ServerPreLaunch == {"no_input", "spawned"}
ServerDurations == {2}
ServerLines == {[key |-> "out_time_ms", int |-> TRUE, value |-> 1000000]}
ServerExits == {"exit_0", "exit_nonzero"}

\* int(x) of a quotient: truncation toward zero
TruncDiv(a, b) ==
  IF (a >= 0) = (b > 0) THEN (IF a >= 0 THEN a ELSE -a) \div (IF b > 0 THEN b ELSE -b)
  ELSE -((IF a >= 0 THEN a ELSE -a) \div (IF b > 0 THEN b ELSE -b))

\* progress of one out_time_ms line: min(100, int(time_sec / duration * 100))
Progress(time_ms, duration) ==
  IF duration > 0 THEN Min(100, TruncDiv(time_ms * 100, duration * 1000000)) ELSE 0

(* ------------------------------- state --------------------------------- *)
VARIABLES
  wsState,             \* each websocket: "new", "open" or "closed"
  active_connections,  \* self.active_connections
  tasks,               \* self.tasks: task id -> the asyncio task (a runner)
  runners,             \* the conversions started, in creation order
  uploads,             \* self.uploads: upload id -> upload state
  handles,             \* the file objects opened, in creation order
  files,               \* the filesystem: real path -> bytes on disk
  request,             \* the latest message handled: websocket, action, and
                       \* the id it names (None when the map does not hold it)
  reply,               \* the messages sent while handling the latest request
  taskLog,             \* per task id, the messages carrying it delivered so far
  allocated,           \* the upload ids handed out in upload_init so far
  accepted,            \* per upload id, the bytes decoded and appended since upload_init
  handled,             \* the number of client messages handled so far
  broadcasting         \* the call of broadcast() in progress, if any

vars == <<wsState, active_connections, tasks, runners, uploads, handles,
          files, request, reply, taskLog, allocated, accepted, handled,
          broadcasting>>

\* no broadcast() has been called
NoBroadcast == [pc |-> "idle", start |-> {}, size |-> 0, current |-> 0,
                seen |-> {}, disconnected |-> <<>>, sent |-> {}]

\* one JSON message sent to a client
Msg(to, type, id, status, message, progress, uploaded) ==
  [to |-> to, type |-> type, id |-> id, status |-> status, message |-> message,
   progress |-> progress, uploaded |-> uploaded]
ErrorMsg(to, message) == Msg(to, "error", None, "", message, 0, 0)

\* websocket.send of the response to the request being handled
Reply(m) == reply' = [to |-> m.to, msgs |-> <<m>>]

\* a message loop that takes the next message only when no conversion of
\* its websocket is under way, as one that awaits convert_video itself would
ReceiveWhenIdle(ws, action, id) ==
  /\ wsState[ws] = "open"
  /\ \A r \in 1..Len(runners) :
       runners[r].conn = ws => runners[r].pc \notin {"pending", "reading"}
  /\ handled < MaxReqs
  /\ handled' = handled + 1
  /\ request' = [ws |-> ws, action |-> action, id |-> id]

\* process_message is entered for one more message of an open websocket
Receive(ws, action, id) ==
  /\ wsState[ws] = "open"
  /\ handled < MaxReqs
  /\ handled' = handled + 1
  /\ request' = [ws |-> ws, action |-> action, id |-> id]
\* the id a request names, as far as the map it addresses knows it
Known(id, map) == IF id \in DOMAIN map THEN id ELSE None

\* removal of a key from a dict
Without(f, k) == [x \in DOMAIN f \ {k} |-> f[x]]
\* dict assignment d[k] = v
With(f, k, v) == [x \in DOMAIN f \cup {k} |-> IF x = k THEN v ELSE f[x]]

\* a message carrying a task id reaches its client
Logged(log, m) ==
  With(log, m.id, (IF m.id \in DOMAIN log THEN log[m.id] ELSE <<>>) \o <<m>>)

Init ==
  /\ wsState = [c \in Conns |-> "new"]
  /\ active_connections = {}
  /\ tasks = <<>>
  /\ runners = <<>>
  /\ uploads = <<>>
  /\ handles = <<>>
  /\ files = <<>>
  /\ request = [ws |-> 0, action |-> "", id |-> None]
  /\ reply = [to |-> 0, msgs |-> <<>>]
  /\ taskLog = <<>>
  /\ allocated = {}
  /\ accepted = <<>>
  /\ handled = 0
  /\ broadcasting = NoBroadcast

(* ------------------------- handle_connection --------------------------- *)
\* a client connects: the websocket joins the live set
Connect(ws) ==
  /\ wsState[ws] = "new"
  /\ \A w \in Conns : w < ws => wsState[w] # "new"
  /\ wsState' = [wsState EXCEPT ![ws] = "open"]
  /\ active_connections' = active_connections \cup {ws}
  /\ UNCHANGED <<broadcasting, tasks, runners, uploads, handles, files, request, reply,
                 taskLog, allocated, accepted, handled>>

\* the message loop ends (close, ConnectionClosed, other exception): finally
Disconnect(ws) ==
  /\ wsState[ws] = "open"
  /\ wsState' = [wsState EXCEPT ![ws] = "closed"]
  /\ active_connections' = active_connections \ {ws}
  /\ UNCHANGED <<broadcasting, tasks, runners, uploads, handles, files, request, reply,
                 taskLog, allocated, accepted, handled>>

\* the two halves of Disconnect as the event loop runs them when another
\* coroutine is scheduled in between: the connection closes, and later the
\* handler leaves `async for` and runs its finally clause
Close(ws) ==
  /\ wsState[ws] = "open"
  /\ wsState' = [wsState EXCEPT ![ws] = "closed"]
  /\ UNCHANGED <<active_connections, broadcasting, tasks, runners, uploads,
                 handles, files, request, reply, taskLog, allocated, accepted,
                 handled>>
Teardown(ws) ==
  /\ wsState[ws] = "closed"
  /\ ws \in active_connections
  /\ active_connections' = active_connections \ {ws}
  /\ UNCHANGED <<wsState, broadcasting, tasks, runners, uploads, handles,
                 files, request, reply, taskLog, allocated, accepted, handled>>

(* ------------------------------ broadcast ------------------------------ *)
\* set.remove of each element of a list, in order: KeyError at the first
\* one that is not in the set
RECURSIVE RemoveAll(_, _)
RemoveAll(set, list) ==
  IF list = <<>> THEN [set |-> set, raised |-> FALSE]
  ELSE IF Head(list) \notin set THEN [set |-> set, raised |-> TRUE]
  ELSE RemoveAll(set \ {Head(list)}, Tail(list))

\* broadcast() is called: an empty live set returns at once; otherwise the
\* for loop creates the iterator of the set, which remembers the set's size,
\* takes a first connection from it and starts the awaited send
BroadcastStart ==
  /\ broadcasting.pc = "idle"
  /\ IF active_connections = {}
     THEN broadcasting' = [NoBroadcast EXCEPT !.pc = "returned"]
     ELSE \E c \in active_connections :
            broadcasting' = [NoBroadcast EXCEPT
                              !.pc = "sending", !.current = c, !.seen = {c},
                              !.start = active_connections,
                              !.size = Cardinality(active_connections)]
  /\ UNCHANGED <<wsState, active_connections, tasks, runners, uploads, handles,
                 files, request, reply, taskLog, allocated, accepted, handled>>

\* the awaited send ends (other coroutines ran meanwhile): ConnectionClosed
\* puts the connection on the list. Then next() of the set iterator: a set
\* whose size changed since the iterator was created raises RuntimeError;
\* one that changed and regained its size yields what is left of it or ends
\* early. When the iterator ends, the second loop, which awaits nothing,
\* removes the listed connections from the live set.
BroadcastSend ==
  /\ broadcasting.pc = "sending"
  /\ LET c == broadcasting.current
         done == IF wsState[c] = "open"
                 THEN [broadcasting EXCEPT !.sent = @ \cup {c}]
                 ELSE [broadcasting EXCEPT !.disconnected = Append(@, c)]
         rest == active_connections \ broadcasting.seen
         mutated == ~(broadcasting.seen \subseteq active_connections)
         out == RemoveAll(active_connections, done.disconnected)
     IN IF Cardinality(active_connections) # broadcasting.size
        THEN /\ broadcasting' = [done EXCEPT !.pc = "raised"]
             /\ UNCHANGED active_connections
        ELSE \/ /\ rest = {} \/ mutated
                /\ active_connections' = out.set
                /\ broadcasting' =
                     [done EXCEPT !.pc = IF out.raised THEN "raised" ELSE "returned"]
             \/ /\ \E n \in rest :
                     broadcasting' = [done EXCEPT !.current = n, !.seen = @ \cup {n}]
                /\ UNCHANGED active_connections
  /\ UNCHANGED <<wsState, tasks, runners, uploads, handles, files, request,
                 reply, taskLog, allocated, accepted, handled>>

(* --------------------------- process_message --------------------------- *)
\* frames a client sends that reach none of the six handlers: text that is
\* not JSON ("{"), text nested deeper than the parser's recursion limit
\* ("[[[[..."), a binary frame that is not UTF-8 (b"\xff"), JSON that is not
\* an object ("[]"), an object without "action" and one with another action
Payloads ==
  { [json |-> "malformed", action |-> "None"],
    [json |-> "too_deep", action |-> "None"],
    [json |-> "undecodable", action |-> "None"],
    [json |-> "array", action |-> "None"],
    [json |-> "object", action |-> "None"],
    [json |-> "object", action |-> "ping"] }

\* json.loads(message): the exception it raises, or "" when it returns
JsonLoads(payload) ==
  IF payload.json = "malformed" THEN "JSONDecodeError"
  ELSE IF payload.json = "too_deep" THEN "RecursionError"
  ELSE IF payload.json = "undecodable" THEN "UnicodeDecodeError"
  ELSE ""

\* process_message for such a frame: the else branch of the dispatch, or one
\* of the two except clauses (data.get on a list raises AttributeError)
HandleMessage(ws, payload) ==
  /\ Receive(ws, IF payload.json = "object" THEN payload.action ELSE payload.json,
             None)
  /\ IF JsonLoads(payload) = "JSONDecodeError"
     THEN Reply(ErrorMsg(ws, "Invalid JSON format"))
     ELSE IF JsonLoads(payload) # ""
     THEN Reply(ErrorMsg(ws, JsonLoads(payload)))
     ELSE IF payload.json # "object"
     THEN Reply(ErrorMsg(ws, "AttributeError"))
     ELSE Reply(ErrorMsg(ws, <<"Unknown action:", payload.action>>))
  /\ UNCHANGED <<broadcasting, wsState, active_connections, tasks, runners, uploads, handles,
                 files, taskLog, allocated, accepted>>

\* what the probe of handle_check_ffmpeg meets on the host
Probes == {"found", "missing", "denied"}

\* handle_check_ffmpeg: check_ffmpeg() and one ffmpeg_check response; an
\* OSError check_ffmpeg does not catch reaches process_message's except
HandleCheckFfmpeg(ws, probe) ==
  /\ Receive(ws, "check_ffmpeg", None)
  /\ IF probe = "denied"
     THEN Reply(ErrorMsg(ws, "PermissionError"))
     ELSE Reply(Msg(ws, "ffmpeg_check", None, "",
                    IF probe = "found" THEN "FFmpeg is available"
                    ELSE "FFmpeg is not installed or not in PATH", 0, 0))
  /\ UNCHANGED <<broadcasting, wsState, active_connections, tasks, runners, uploads, handles,
                 files, taskLog, allocated, accepted>>

(* ---------------------- convert / cancel requests ---------------------- *)
\* a convert that starts the conversion without looking at the two file names
HandleConvertUnvalidated(ws, input_file, output_file) ==
  /\ Receive(ws, "convert", None)
  /\ LET task_id == MakeId(ws, Cardinality(DOMAIN tasks))
         task == [conn |-> ws, task_id |-> task_id,
                  input_file |-> input_file, output_file |-> output_file,
                  pc |-> "pending", duration |-> 0, lines |-> 0,
                  cancelled |-> FALSE, env |-> "", stdout |-> <<>>,
                  spawned |-> FALSE, result |-> "none"]
         m == Msg(ws, "task_started", task_id, "", "Conversion task started", 0, 0)
     IN /\ Len(runners) < MaxTasks
        /\ runners' = Append(runners, task)
        /\ tasks' = With(tasks, task_id, Len(runners) + 1)
        /\ Reply(m)
        /\ taskLog' = Logged(taskLog, m)
  /\ UNCHANGED <<broadcasting, wsState, active_connections, uploads, handles, files,
                 allocated, accepted>>

HandleConvert(ws, input_file, output_file) ==
  /\ Receive(ws, "convert", None)
  /\ IF input_file = "" \/ output_file = ""
     THEN /\ Reply(ErrorMsg(ws, "Missing input_file or output_file"))
          /\ UNCHANGED <<tasks, runners, taskLog>>
     ELSE LET task_id == MakeId(ws, Cardinality(DOMAIN tasks))
              task == [conn |-> ws, task_id |-> task_id,
                       input_file |-> input_file, output_file |-> output_file,
                       pc |-> "pending", duration |-> 0, lines |-> 0,
                       cancelled |-> FALSE, env |-> "", stdout |-> <<>>,
                       spawned |-> FALSE, result |-> "none"]
              m == Msg(ws, "task_started", task_id, "", "Conversion task started", 0, 0)
          IN /\ Len(runners) < MaxTasks
             /\ runners' = Append(runners, task)
             /\ tasks' = With(tasks, task_id, Len(runners) + 1)
             /\ Reply(m)
             /\ taskLog' = Logged(taskLog, m)
  /\ UNCHANGED <<broadcasting, wsState, active_connections, uploads, handles, files,
                 allocated, accepted>>

\* task.cancel(): a task whose executor job has not begun never runs
\* convert_video; one already in the worker thread is not interrupted
CancelTask(rs, r) ==
  [rs EXCEPT ![r] = [@ EXCEPT !.cancelled = TRUE,
                              !.pc = IF @ = "pending" THEN "cancelled" ELSE @]]

\* a cancel that pops without looking the id up and always reports success
HandleCancelUnchecked(ws, task_id) ==
  /\ Receive(ws, "cancel", Known(task_id, tasks))
  /\ LET m == Msg(ws, "task_cancelled", task_id, "", "Conversion task cancelled", 0, 0)
     IN /\ tasks' = Without(tasks, task_id)
        /\ runners' = IF task_id \in DOMAIN tasks
                      THEN CancelTask(runners, tasks[task_id]) ELSE runners
        /\ Reply(m)
        /\ taskLog' = Logged(taskLog, m)
  /\ UNCHANGED <<broadcasting, wsState, active_connections, uploads, handles, files,
                 allocated, accepted>>

HandleCancel(ws, task_id) ==
  /\ Receive(ws, "cancel", Known(task_id, tasks))
  /\ IF task_id \in DOMAIN tasks
     THEN LET m == Msg(ws, "task_cancelled", task_id, "", "Conversion task cancelled", 0, 0)
          IN /\ tasks' = Without(tasks, task_id)
             /\ runners' = CancelTask(runners, tasks[task_id])
             /\ Reply(m)
             /\ taskLog' = Logged(taskLog, m)
     ELSE /\ Reply(ErrorMsg(ws, "Task not found"))
          /\ UNCHANGED <<tasks, runners, taskLog>>
  /\ UNCHANGED <<broadcasting, wsState, active_connections, uploads, handles, files,
                 allocated, accepted>>

(* --------------------- convert_video on the worker --------------------- *)
\* call_callback runs progress_callback to completion (asyncio.run) before
\* convert_video goes on; progress_callback sends on the websocket, and the
\* send reaches the client unless the connection is closed (ConnectionClosed
\* is swallowed)
\* a sink that hands each event over without waiting for the one before it,
\* so that a later event can overtake an earlier one
EmitUnordered(ws, task_id, update) ==
  IF wsState[ws] = "open"
  THEN \E k \in 0..(IF task_id \in DOMAIN taskLog THEN Len(taskLog[task_id]) ELSE 0) :
         LET old == IF task_id \in DOMAIN taskLog THEN taskLog[task_id] ELSE <<>>
             m == Msg(ws, "progress", task_id, update.status, update.message,
                      update.progress, 0)
         IN taskLog' = With(taskLog, task_id,
                            SubSeq(old, 1, k) \o <<m>> \o SubSeq(old, k + 1, Len(old)))
  ELSE UNCHANGED taskLog

Emit(ws, task_id, update) ==
  IF wsState[ws] = "open"
  THEN taskLog' = Logged(taskLog, Msg(ws, "progress", task_id, update.status,
                                      update.message, update.progress, 0))
  ELSE UNCHANGED taskLog
Update(status, message, progress) ==
  [status |-> status, message |-> message, progress |-> progress]

\* the checks before the process is spawned: the words of the error message,
\* or <<>> to go on
PreLaunchError(input_file, output_file, env) ==
  IF input_file = "" THEN <<"Input", "file", "path", "is", "required">>
  ELSE IF output_file = "" THEN <<"Output", "file", "path", "is", "required">>
  ELSE IF env = "no_ffmpeg"
  THEN <<"FFmpeg", "not", "found.", "Please", "install", "FFmpeg">>
  ELSE IF env = "no_input" THEN <<"Input", "file", "not", "found:", input_file>>
  ELSE IF env = "not_file"
  THEN <<"Input", "path", "is", "not", "a", "file:", input_file>>
  ELSE IF env = "mkdir_failed"
  THEN <<"Failed", "to", "create", "output", "directory:">>
  ELSE <<>>

\* check_ffmpeg catches SubprocessError and FileNotFoundError only: any
\* other OSError of the probe leaves convert_video as an exception, before
\* the checks that follow it
ProbeRaises(input_file, output_file, env) ==
  input_file # "" /\ output_file # "" /\ env = "ffmpeg_denied"

\* the executor starts convert_video: validation, probes, Popen
RunnerStart(r, env, duration) ==
  /\ r \in 1..Len(runners) /\ runners[r].pc = "pending"
  /\ LET t == runners[r]
         err == PreLaunchError(t.input_file, t.output_file, env)
     IN IF ProbeRaises(t.input_file, t.output_file, env)
        THEN /\ runners' = [runners EXCEPT ![r].pc = "done", ![r].env = env,
                                           ![r].result = "raised"]
             /\ UNCHANGED taskLog
        ELSE IF err # <<>>
        THEN /\ Emit(t.conn, t.task_id, Update("error", err, 0))
             /\ runners' = [runners EXCEPT ![r].pc = "done", ![r].env = env,
                                           ![r].result = "False"]
        ELSE IF env = "spawn_failed"
        THEN /\ Emit(t.conn, t.task_id, Update("error", <<"exception">>, 0))
             /\ runners' = [runners EXCEPT ![r].pc = "done", ![r].env = env,
                                           ![r].result = "False"]
        ELSE /\ runners' = [runners EXCEPT ![r].pc = "reading", ![r].env = env,
                                           ![r].duration = duration,
                                           ![r].spawned = TRUE]
             /\ UNCHANGED taskLog
  /\ UNCHANGED <<broadcasting, wsState, active_connections, tasks, uploads, handles, files,
                 request, reply, allocated, accepted, handled>>

\* one line of process.stdout
RunnerLine(r, line) ==
  /\ r \in 1..Len(runners) /\ runners[r].pc = "reading"
  /\ runners[r].lines < MaxLines
  /\ LET t == runners[r] IN
       /\ runners' = [runners EXCEPT ![r].lines = @ + 1,
                                     ![r].stdout = Append(@, line)]
       /\ IF line.key = "out_time_ms" /\ line.int
          THEN Emit(t.conn, t.task_id,
                    Update("progress", <<>>, Progress(line.value, t.duration)))
          ELSE UNCHANGED taskLog
  /\ UNCHANGED <<broadcasting, wsState, active_connections, tasks, uploads, handles, files,
                 request, reply, allocated, accepted, handled>>

\* the stream ends: communicate(), returncode, or the except branch
RunnerExit(r, outcome) ==
  /\ r \in 1..Len(runners) /\ runners[r].pc = "reading"
  /\ LET t == runners[r] IN
       /\ runners' = [runners EXCEPT ![r].pc = "done",
                                     ![r].result = IF outcome = "exit_0"
                                                   THEN "True" ELSE "False"]
       /\ IF outcome = "exit_0"
          THEN Emit(t.conn, t.task_id, Update("completed", <<>>, 0))
          ELSE IF outcome = "exit_nonzero"
          THEN Emit(t.conn, t.task_id, Update("error", <<"stderr">>, 0))
          ELSE Emit(t.conn, t.task_id, Update("error", <<"exception">>, 0))
  /\ UNCHANGED <<broadcasting, wsState, active_connections, tasks, uploads, handles, files,
                 request, reply, allocated, accepted, handled>>

(* --------------------------- upload requests --------------------------- *)
\* a file object of open(path, 'wb'): buffered, with its own position
NewHandle(path) == [path |-> path, pos |-> 0, buf |-> <<>>, closed |-> FALSE]
\* the buffer reaches the disk at the handle's position
FlushTo(fs, h) == IF h.buf = <<>> THEN fs ELSE With(fs, h.path, WriteAt(fs[h.path], h.pos, h.buf))
Flushed(h) == [h EXCEPT !.pos = @ + Len(h.buf), !.buf = <<>>]
\* file_handle.close(): flush, then the object is closed
Closed(h) == [h EXCEPT !.pos = 0, !.buf = <<>>, !.closed = TRUE]

\* ids a client may name in task_id / upload_id
TaskIds == {None} \cup {MakeId(c, n) : c \in Conns, n \in 0..(MaxTasks - 1)}
UploadIds == {None} \cup {MakeId(c, n) : c \in Conns, n \in 0..(MaxUploads - 1)}

HandleUpload(ws, file_name, file_size, openOk) ==
  /\ Receive(ws, "upload", None)
  /\ IF file_name = <<>>
     THEN /\ Reply(ErrorMsg(ws, "Missing file_name"))
          /\ UNCHANGED <<uploads, handles, files, allocated, accepted>>
     ELSE LET upload_id == MakeId(ws, Cardinality(DOMAIN uploads))
              file_path == PathJoin(upload_dir, file_name)
              state == [file_name |-> file_name, file_path |-> file_path,
                        file_size |-> file_size, uploaded_size |-> 0,
                        file_handle |-> 0]
              \* a record stored under the same id is dropped by the assignment
              \* and its file object, no longer referenced, is finalised
              old == IF upload_id \in DOMAIN uploads
                     THEN uploads[upload_id].file_handle ELSE 0
              hs1 == IF old # 0 THEN [handles EXCEPT ![old] = Closed(@)] ELSE handles
              fs1 == IF old # 0 THEN FlushTo(files, handles[old]) ELSE files
          IN /\ Len(handles) < MaxUploads
             /\ Cardinality(DOMAIN uploads) < MaxUploads
             /\ accepted' = With(accepted, upload_id, <<>>)
             /\ IF openOk
                THEN /\ files' = With(fs1, RealPath(file_path), <<>>)
                     /\ handles' = Append(hs1, NewHandle(RealPath(file_path)))
                     /\ uploads' = With(uploads, upload_id,
                                        [state EXCEPT !.file_handle = Len(handles) + 1])
                     /\ allocated' = allocated \cup {upload_id}
                     /\ Reply(Msg(ws, "upload_init", upload_id, "",
                                  "Upload initialized successfully", 0, 0))
                ELSE /\ files' = fs1
                     /\ handles' = hs1
                     /\ uploads' = With(uploads, upload_id, state)
                     /\ UNCHANGED allocated
                     /\ Reply(ErrorMsg(ws, "Failed to initialize upload"))
  /\ UNCHANGED <<broadcasting, wsState, active_connections, tasks, runners, taskLog>>

\* min(100, int(uploaded_size / file_size * 100)); file_size 0 raises
UploadProgress(uploaded_size, file_size) ==
  Min(100, TruncDiv(uploaded_size * 100, file_size))

HandleUploadChunk(ws, upload_id, chunk, flush) ==
  /\ Receive(ws, "upload_chunk", Known(upload_id, uploads))
  /\ IF upload_id = None \/ chunk = <<>>
     THEN /\ Reply(ErrorMsg(ws, "Missing upload_id or chunk"))
          /\ UNCHANGED <<uploads, handles, files, accepted>>
     ELSE IF upload_id \notin DOMAIN uploads
     THEN /\ Reply(ErrorMsg(ws, "Upload not found"))
          /\ UNCHANGED <<uploads, handles, files, accepted>>
     ELSE IF uploads[upload_id].file_handle = 0
     THEN /\ Reply(ErrorMsg(ws, "Upload not properly initialized"))
          /\ UNCHANGED <<uploads, handles, files, accepted>>
     ELSE IF ~B64Valid(chunk)
     THEN /\ Reply(ErrorMsg(ws, "Failed to process upload chunk"))
          /\ UNCHANGED <<uploads, handles, files, accepted>>
     ELSE LET upload_state == uploads[upload_id]
              fh == upload_state.file_handle
              chunk_data == b64decode(chunk)
              written == [handles[fh] EXCEPT !.buf = @ \o chunk_data]
              uploaded == upload_state.uploaded_size + Len(chunk_data)
          IN /\ uploaded <= MaxBytes
             /\ handles' = [handles EXCEPT ![fh] = IF flush THEN Flushed(written) ELSE written]
             /\ files' = IF flush THEN FlushTo(files, written) ELSE files
             /\ uploads' = [uploads EXCEPT ![upload_id].uploaded_size = uploaded]
             /\ accepted' = [accepted EXCEPT ![upload_id] = @ \o chunk_data]
             /\ IF upload_state.file_size = 0
                THEN Reply(ErrorMsg(ws, "Failed to process upload chunk"))
                ELSE Reply(Msg(ws, "upload_progress", upload_id, "", "",
                               UploadProgress(uploaded, upload_state.file_size),
                               uploaded))
  /\ UNCHANGED <<broadcasting, wsState, active_connections, tasks, runners, taskLog, allocated>>

\* the body of handle_upload_complete for a session the map holds: close()
\* flushes the buffer (closeOk) or raises OSError and loses it; either way
\* the file object ends closed. keep = the record stays in the map.
CompleteSession(ws, upload_id, closeOk, keep) ==
  LET upload_state == uploads[upload_id]
      fh == upload_state.file_handle
      fs1 == IF fh # 0 /\ closeOk THEN FlushTo(files, handles[fh]) ELSE files
      path == RealPath(upload_state.file_path)
  IN /\ handles' = IF fh # 0 THEN [handles EXCEPT ![fh] = Closed(@)] ELSE handles
     /\ files' = fs1
     /\ IF fh # 0 /\ ~closeOk
        THEN Reply(ErrorMsg(ws, "Failed to complete upload"))
        ELSE IF path \in DOMAIN fs1 /\ Len(fs1[path]) > 0
        THEN Reply(Msg(ws, "upload_complete", upload_id, "",
                       "File uploaded successfully", 0, 0))
        ELSE Reply(ErrorMsg(ws, "Uploaded file is empty or does not exist"))
     /\ uploads' = IF keep THEN [uploads EXCEPT ![upload_id].file_handle = 0]
                   ELSE Without(uploads, upload_id)
     /\ accepted' = IF keep THEN accepted ELSE Without(accepted, upload_id)

\* a completion whose clean-up runs on success only
HandleUploadCompleteNoFinally(ws, upload_id, closeOk) ==
  /\ Receive(ws, "upload_complete", Known(upload_id, uploads))
  /\ IF upload_id = None
     THEN /\ Reply(ErrorMsg(ws, "Missing upload_id"))
          /\ UNCHANGED <<uploads, handles, files, accepted>>
     ELSE IF upload_id \notin DOMAIN uploads
     THEN /\ Reply(ErrorMsg(ws, "Upload not found"))
          /\ UNCHANGED <<uploads, handles, files, accepted>>
     ELSE CompleteSession(ws, upload_id, closeOk,
                          reply'.msgs[1].type # "upload_complete")
  /\ UNCHANGED <<broadcasting, wsState, active_connections, tasks, runners,
                 taskLog, allocated>>

HandleUploadComplete(ws, upload_id, closeOk) ==
  /\ Receive(ws, "upload_complete", Known(upload_id, uploads))
  /\ IF upload_id = None
     THEN /\ Reply(ErrorMsg(ws, "Missing upload_id"))
          /\ UNCHANGED <<uploads, handles, files, accepted>>
     ELSE IF upload_id \notin DOMAIN uploads
     THEN /\ Reply(ErrorMsg(ws, "Upload not found"))
          /\ UNCHANGED <<uploads, handles, files, accepted>>
     ELSE CompleteSession(ws, upload_id, closeOk, FALSE)
  /\ UNCHANGED <<broadcasting, wsState, active_connections, tasks, runners,
                 taskLog, allocated>>

(* ------------------------------ behaviour ------------------------------ *)
Next ==
  \/ \E ws \in Conns : Connect(ws)
  \/ \E ws \in Conns : Disconnect(ws)
  \/ \E ws \in Conns, i \in InputFiles, o \in OutputFiles : HandleConvert(ws, i, o)
  \/ \E ws \in Conns, t \in TaskIds : HandleCancel(ws, t)
  \/ \E ws \in Conns, n \in FileNames, z \in FileSizes, ok \in BOOLEAN :
       HandleUpload(ws, n, z, ok)
  \/ \E ws \in Conns, u \in UploadIds, k \in Chunks, fl \in BOOLEAN :
       HandleUploadChunk(ws, u, k, fl)
  \/ \E ws \in Conns, u \in UploadIds, ok \in BOOLEAN :
       HandleUploadComplete(ws, u, ok)
  \/ \E r \in 1..MaxTasks, env \in ServerPreLaunch, d \in ServerDurations :
       RunnerStart(r, env, d)
  \/ \E r \in 1..MaxTasks, l \in ServerLines : RunnerLine(r, l)
  \/ \E r \in 1..MaxTasks, x \in ServerExits : RunnerExit(r, x)
  \/ \E ws \in Conns, p \in Payloads : HandleMessage(ws, p)
  \/ \E ws \in Conns, p \in Probes : HandleCheckFfmpeg(ws, p)
  \/ \E ws \in Conns : Close(ws)
  \/ \E ws \in Conns : Teardown(ws)
  \/ BroadcastStart
  \/ BroadcastSend

Spec == Init /\ [][Next]_vars

\* the conversion side alone: connections, convert, cancel and the workers
NextTasks ==
  \/ \E ws \in Conns : Connect(ws)
  \/ \E ws \in Conns : Disconnect(ws)
  \/ \E ws \in Conns, i \in InputFiles, o \in OutputFiles : HandleConvert(ws, i, o)
  \/ \E ws \in Conns, t \in TaskIds : HandleCancel(ws, t)
  \/ \E r \in 1..MaxTasks, env \in ServerPreLaunch, d \in ServerDurations :
       RunnerStart(r, env, d)
  \/ \E r \in 1..MaxTasks, l \in ServerLines : RunnerLine(r, l)
  \/ \E r \in 1..MaxTasks, x \in ServerExits : RunnerExit(r, x)

SpecTasks == Init /\ [][NextTasks]_vars

\* the upload side alone: connections and the three upload requests
NextUploads ==
  \/ \E ws \in Conns : Connect(ws)
  \/ \E ws \in Conns : Disconnect(ws)
  \/ \E ws \in Conns, n \in FileNames, z \in FileSizes, ok \in BOOLEAN :
       HandleUpload(ws, n, z, ok)
  \/ \E ws \in Conns, u \in UploadIds, k \in Chunks, fl \in BOOLEAN :
       HandleUploadChunk(ws, u, k, fl)
  \/ \E ws \in Conns, u \in UploadIds, ok \in BOOLEAN :
       HandleUploadComplete(ws, u, ok)

SpecUploads == Init /\ [][NextUploads]_vars

\* the message loops alone: every request kind, no worker scheduled, uploads
\* of one plain file name that open and close without an I/O error
PlainNames == { <<>>, <<"a">> }
NextRequests ==
  \/ \E ws \in Conns : Connect(ws)
  \/ \E ws \in Conns : Disconnect(ws)
  \/ \E ws \in Conns, i \in InputFiles, o \in OutputFiles : HandleConvert(ws, i, o)
  \/ \E ws \in Conns, t \in TaskIds : HandleCancel(ws, t)
  \/ \E ws \in Conns, n \in PlainNames, z \in FileSizes :
       HandleUpload(ws, n, z, TRUE)
  \/ \E ws \in Conns, u \in UploadIds, k \in Chunks, fl \in BOOLEAN :
       HandleUploadChunk(ws, u, k, fl)
  \/ \E ws \in Conns, u \in UploadIds : HandleUploadComplete(ws, u, TRUE)

SpecRequests == Init /\ [][NextRequests]_vars

\* upload sessions of one plain file name and one declared size from begin
\* to completion, fed one-byte chunks, with the I/O errors open() and
\* close() can meet
PlainSizes == {2}
PlainChunks == { <<0, 16, Pad, Pad>> }
NextSessions ==
  \/ \E ws \in Conns : Connect(ws)
  \/ \E ws \in Conns : Disconnect(ws)
  \/ \E ws \in Conns, n \in PlainNames, z \in PlainSizes, ok \in BOOLEAN :
       HandleUpload(ws, n, z, ok)
  \/ \E ws \in Conns, u \in UploadIds, k \in PlainChunks, fl \in BOOLEAN :
       HandleUploadChunk(ws, u, k, fl)
  \/ \E ws \in Conns, u \in UploadIds, ok \in BOOLEAN :
       HandleUploadComplete(ws, u, ok)

SpecSessions == Init /\ [][NextSessions]_vars

\* the message loops while the workers run: conversions of an existing
\* input whose process prints nothing before it exits, cancels, and upload
\* sessions of one plain name fed one-byte chunks
NextLoop ==
  \/ \E ws \in Conns : Connect(ws)
  \/ \E ws \in Conns : Disconnect(ws)
  \/ \E ws \in Conns : HandleConvert(ws, "in.mov", "out.mp4")
  \/ \E ws \in Conns, t \in TaskIds : HandleCancel(ws, t)
  \/ \E ws \in Conns, n \in PlainNames, z \in PlainSizes :
       HandleUpload(ws, n, z, TRUE)
  \/ \E ws \in Conns, u \in UploadIds, k \in PlainChunks :
       HandleUploadChunk(ws, u, k, TRUE)
  \/ \E r \in 1..MaxTasks, d \in ServerDurations : RunnerStart(r, "spawned", d)
  \/ \E r \in 1..MaxTasks : RunnerExit(r, "exit_0")

SpecLoop == Init /\ [][NextLoop]_vars

\* the dispatch alone: frames no handler takes, and the ffmpeg check
NextDispatch ==
  \/ \E ws \in Conns : Connect(ws)
  \/ \E ws \in Conns : Disconnect(ws)
  \/ \E ws \in Conns, p \in Payloads : HandleMessage(ws, p)
  \/ \E ws \in Conns, p \in Probes : HandleCheckFfmpeg(ws, p)

SpecDispatch == Init /\ [][NextDispatch]_vars

\* a broadcast while connections are accepted, closed and torn down, and
\* while their clients send frames
NextBroadcast ==
  \/ \E ws \in Conns : Connect(ws)
  \/ \E ws \in Conns : Close(ws)
  \/ \E ws \in Conns : Teardown(ws)
  \/ \E ws \in Conns, p \in Probes : HandleCheckFfmpeg(ws, p)
  \/ BroadcastStart
  \/ BroadcastSend

SpecBroadcast == Init /\ [][NextBroadcast]_vars

\* convert_video called once on its own (the package API, the command line):
\* any arguments, any host, every kind of progress line
InitRunner ==
  /\ wsState = [c \in Conns |-> IF c = 1 THEN "open" ELSE "new"]
  /\ active_connections = {1}
  /\ \E i \in InputFiles, o \in OutputFiles :
       runners = << [conn |-> 1, task_id |-> MakeId(1, 0),
                     input_file |-> i, output_file |-> o, pc |-> "pending",
                     duration |-> 0, lines |-> 0, cancelled |-> FALSE,
                     env |-> "", stdout |-> <<>>, spawned |-> FALSE,
                     result |-> "none"] >>
  /\ tasks = [x \in {MakeId(1, 0)} |-> 1]
  /\ uploads = <<>>
  /\ handles = <<>>
  /\ files = <<>>
  /\ request = [ws |-> 0, action |-> "", id |-> None]
  /\ reply = [to |-> 0, msgs |-> <<>>]
  /\ taskLog = <<>>
  /\ allocated = {}
  /\ accepted = <<>>
  /\ handled = 0
  /\ broadcasting = NoBroadcast

NextRunner ==
  \/ \E env \in PreLaunch, d \in Durations : RunnerStart(1, env, d)
  \/ \E l \in Lines : RunnerLine(1, l)
  \/ \E x \in ExitOutcomes : RunnerExit(1, x)

SpecRunner == InitRunner /\ [][NextRunner]_vars

(* ============================== claims ================================= *)
\* the messages of a log that are task_started / terminal events
IsTerminal(m) == m.type = "progress" /\ m.status \in {"completed", "error"}
StartedAt(log) == {k \in 1..Len(log) : log[k].type = "task_started"}
TerminalAt(log) == {k \in 1..Len(log) : IsTerminal(log[k])}
\* the runner a task-map entry points to is registered
Registered(r) == \E id \in DOMAIN tasks : tasks[id] = r

\* C1: every accepted convert request returns a task id no earlier
\* task_started carried, and no conversion that was never cancelled loses its
\* entry of the task map to a later one.
C1_TaskIdsFresh ==
  /\ \A id \in DOMAIN taskLog : Cardinality(StartedAt(taskLog[id])) <= 1
  /\ \A r \in 1..Len(runners) :
       ~runners[r].cancelled =>
         /\ runners[r].task_id \in DOMAIN tasks
         /\ tasks[runners[r].task_id] = r

\* C2: once task_cancelled was delivered for a task id before any terminal
\* event of it, no completed event carrying that id is delivered afterwards.
C2_NoCompletedAfterCancel ==
  \A id \in DOMAIN taskLog :
    LET log == taskLog[id] IN
    \A i, j \in 1..Len(log) :
      ( /\ i < j
        /\ log[i].type = "task_cancelled"
        /\ \A k \in 1..(i - 1) : ~IsTerminal(log[k]) )
      => ~(log[j].type = "progress" /\ log[j].status = "completed")

\* C3: at most one terminal event (completed or error) is delivered per task
\* id, and no progress event carrying the id is delivered after it.
C3_OneTerminalLast ==
  \A id \in DOMAIN taskLog :
    LET log == taskLog[id] IN
    /\ Cardinality(TerminalAt(log)) <= 1
    /\ \A i, j \in 1..Len(log) :
         (i < j /\ IsTerminal(log[i])) => log[j].type # "progress"

\* C4: after a websocket's message loop has ended, the task map holds no
\* task that websocket submitted.
C4_TeardownCancelsTasks ==
  \A ws \in Conns :
    wsState[ws] = "closed" =>
      \A r \in 1..Len(runners) : runners[r].conn = ws => ~Registered(r)

\* C5: after a websocket's message loop has ended, the upload map holds no
\* session of that websocket whose file handle is still open.
C5_TeardownClosesUploads ==
  \A ws \in Conns :
    wsState[ws] = "closed" =>
      \A u \in DOMAIN uploads :
        u[1] = ws =>
          \/ uploads[u].file_handle = 0
          \/ handles[uploads[u].file_handle].closed

\* this step handles one client message
Handling(actions) == handled' = handled + 1 /\ request'.action \in actions
\* the message just handled was answered with exactly one error
OneError ==
  /\ reply'.to = request'.ws
  /\ Len(reply'.msgs) = 1
  /\ reply'.msgs[1].type = "error"
\* the message just handled left maps, counters, file objects and files alone
NoMutation == UNCHANGED <<tasks, runners, uploads, handles, files>>

\* C6: a cancel naming a task id that is not in the task map, and an
\* upload_chunk or upload_complete naming an upload id that is not in the
\* upload map, are each answered with exactly one error and change neither
\* map, no bytes-written counter and no file.
C6_UnknownIdsNoMutation ==
  [][ ( /\ Handling({"cancel", "upload_chunk", "upload_complete"})
        /\ request'.id = None )
      => (OneError /\ NoMutation) ]_vars

\* C6 witness: an unknown upload id was refused while a task is registered
\* and another session has bytes written
C6_Witness ==
  /\ request.action = "upload_chunk" /\ request.id = None
  /\ reply.msgs[1].message = "Upload not found"
  /\ DOMAIN tasks # {}
  /\ \E u \in DOMAIN uploads : uploads[u].uploaded_size > 0

\* C7: when upload_complete is handled for an open session, the destination
\* file holds exactly the bytes decoded from the chunks that session was fed.
C7_UploadRoundTrip ==
  [][ ( /\ Handling({"upload_complete"})
        /\ request'.id # None
        /\ uploads[request'.id].file_handle # 0 )
      => LET path == RealPath(uploads[request'.id].file_path)
         IN path \in DOMAIN files' /\ files'[path] = accepted[request'.id] ]_vars

\* C8: every upload_init carries an upload id that no open session holds and
\* that no earlier upload_init carried.
C8_UploadIdsFresh ==
  [][ (Handling({"upload"}) /\ reply'.msgs[1].type = "upload_init")
      => LET id == reply'.msgs[1].id
         IN id \notin DOMAIN uploads /\ id \notin allocated ]_vars

\* C9: an upload request answered with an error leaves the upload map as it
\* was.
C9_FailedUploadNotRegistered ==
  [][ (Handling({"upload"}) /\ reply'.msgs[1].type = "error")
      => uploads' = uploads ]_vars

\* C10: every session that got upload_init has its destination inside the
\* upload root, and every file opened for writing lies inside it.
C10_UploadsInsideRoot ==
  /\ \A u \in DOMAIN uploads :
       uploads[u].file_handle # 0 => InsideRoot(uploads[u].file_path)
  /\ \A k \in 1..Len(handles) : InsideRoot(handles[k].path)

\* C11: a cancel request that names a task another websocket submitted is
\* answered with exactly one error and leaves the task registered and its
\* conversion as it was.
C11_CancelOnlyByOwner ==
  [][ ( /\ Handling({"cancel"})
        /\ request'.id # None
        /\ runners[tasks[request'.id]].conn # request'.ws )
      => (OneError /\ NoMutation) ]_vars

\* C12: every upload_chunk whose bytes were decoded and appended to an open
\* session is answered with exactly one upload_progress whose bytes-written
\* counter equals the bytes appended so far, with progress 0 when the
\* session's declared size is 0.
C12_ChunkProgressNeverFails ==
  [][ ( /\ Handling({"upload_chunk"})
        /\ request'.id # None
        /\ accepted' # accepted )
      => /\ reply'.to = request'.ws
         /\ Len(reply'.msgs) = 1
         /\ reply'.msgs[1].type = "upload_progress"
         /\ reply'.msgs[1].uploaded = Len(accepted'[request'.id])
         /\ uploads[request'.id].file_size = 0 => reply'.msgs[1].progress = 0
    ]_vars

\* the positions of a log that hold progress events (status "progress")
ProgressAt(log) ==
  {k \in 1..Len(log) : log[k].type = "progress" /\ log[k].status = "progress"}

\* C13: every progress event carries a percentage in 0..100, and when the
\* duration is known (> 0) the percentages of the successive progress events
\* of a conversion never decrease.
C13_ProgressInRangeMonotone ==
  \A r \in 1..Len(runners) :
    LET id == runners[r].task_id
        log == IF id \in DOMAIN taskLog THEN taskLog[id] ELSE <<>>
    IN /\ \A k \in ProgressAt(log) : 0 <= log[k].progress /\ log[k].progress <= 100
       /\ runners[r].duration > 0 =>
            \A i, j \in ProgressAt(log) : i < j => log[i].progress <= log[j].progress

\* the request labels of frames that are not valid JSON, that are JSON but
\* no object, and of objects whose action no handler takes
NotJson == {"malformed", "too_deep", "undecodable"}
NotRecord == {"array"}
UnknownActions == {"None", "ping"}

\* C14: every frame that is not valid JSON, is no JSON object or names an
\* unknown action, and every check_ffmpeg whose handler raises, is answered
\* with exactly one error ("Invalid JSON format" for a payload that is not
\* valid JSON, "Unknown action: <action>" for an unknown action), changes no
\* state and leaves the websocket open and in the live set.
C14_OneErrorPerBadMessage ==
  [][ ( \/ Handling(NotJson \cup NotRecord \cup UnknownActions)
        \/ Handling({"check_ffmpeg"}) /\ reply'.msgs[1].type # "ffmpeg_check" )
      => /\ OneError
         /\ NoMutation
         /\ request'.action \in NotJson =>
              reply'.msgs[1].message = "Invalid JSON format"
         /\ request'.action \in UnknownActions =>
              reply'.msgs[1].message = <<"Unknown action:", request'.action>>
         /\ wsState'[request'.ws] = "open"
         /\ request'.ws \in active_connections'
    ]_vars

\* C15: a broadcast never raises, and when it has returned every connection
\* it found closed during a send is absent from the live set and every
\* connection that is still open and was in the live set from the start was
\* sent the message.
C15_BroadcastNeverRaises ==
  /\ broadcasting.pc # "raised"
  /\ broadcasting.pc = "returned" =>
       \A c \in Conns :
         /\ (\E k \in 1..Len(broadcasting.disconnected) :
                broadcasting.disconnected[k] = c) => c \notin active_connections
         /\ (c \in broadcasting.start /\ wsState[c] = "open")
              => c \in broadcasting.sent

C17_StartedThenProgressThenTerminal ==
  \A id \in DOMAIN taskLog :
    LET log == taskLog[id] IN
    /\ StartedAt(log) = {1}
    /\ \A k \in TerminalAt(log) :
         \A j \in (k + 1)..Len(log) : log[j].type # "progress"

\* the words of a message contain "not found"
MentionsNotFound(message) ==
  \E k \in 1..(Len(message) - 1) :
    message[k] = "not" /\ message[k + 1] \in {"found", "found:", "found."}
\* a check that convert_video makes before it spawns the process failed
PreLaunchFailed(t) ==
  \/ t.input_file = "" \/ t.output_file = ""
  \/ t.env \in {"no_ffmpeg", "ffmpeg_denied", "no_input", "not_file", "mkdir_failed"}

\* C18: a conversion whose pre-launch check failed (empty path, ffmpeg
\* unreachable, input missing or no regular file, output directory not
\* creatable) has emitted exactly one event, an error (mentioning "not found"
\* when the input does not exist), has returned False and has spawned no
\* process.
C18_PreLaunchFailureOneError ==
  \A r \in 1..Len(runners) :
    LET t == runners[r]
        log == IF t.task_id \in DOMAIN taskLog THEN taskLog[t.task_id] ELSE <<>>
    IN (t.pc = "done" /\ PreLaunchFailed(t)) =>
         /\ Len(log) = 1
         /\ log[1].type = "progress" /\ log[1].status = "error"
         /\ (t.input_file # "" /\ t.output_file # "" /\ t.env = "no_input")
              => MentionsNotFound(log[1].message)
         /\ t.result = "False"
         /\ ~t.spawned

\* the percentages of the lines of a progress stream that yield an event
RECURSIVE Percentages(_, _)
Percentages(stdout, duration) ==
  IF stdout = <<>> THEN <<>>
  ELSE LET l == Head(stdout)
           rest == Percentages(Tail(stdout), duration)
       IN IF l.key = "out_time_ms" /\ l.int
          THEN <<Progress(l.value, duration)>> \o rest ELSE rest
\* the percentages of the progress events of a log, in the order delivered
IsProgressEvent(m) == m.type = "progress" /\ m.status = "progress"
Delivered(log) ==
  LET events == SelectSeq(log, IsProgressEvent)
  IN [k \in 1..Len(events) |-> events[k].progress]

\* C19: at every moment the progress events delivered for a conversion are
\* those of the out_time_ms lines read so far, one each, in the order the
\* lines were read: an event is delivered before the next line is read.
C19_ProgressInLineOrder ==
  \A r \in 1..Len(runners) :
    LET t == runners[r]
        log == IF t.task_id \in DOMAIN taskLog THEN taskLog[t.task_id] ELSE <<>>
    IN Delivered(log) = Percentages(t.stdout, t.duration)

\* C19 witness: two lines with different times were read and their two
\* events delivered
C19_Witness ==
  \E r \in 1..Len(runners) :
    /\ Len(runners[r].stdout) = 2
    /\ runners[r].duration > 0
    /\ runners[r].task_id \in DOMAIN taskLog
    /\ Len(Delivered(taskLog[runners[r].task_id])) = 2
    /\ Delivered(taskLog[runners[r].task_id])[1]
         > Delivered(taskLog[runners[r].task_id])[2]

\* the conversion is under way: started by a request, no terminal event yet
Running(r) == runners[r].pc \in {"pending", "reading"}

\* C20: while a conversion of an open websocket is under way, a cancel, an
\* upload, an upload_chunk and a further convert arriving on that websocket
\* can each be handled and answered at once, the conversion still being under
\* way afterwards (a cancel may keep it from starting).
C20_LoopNotBlocked ==
  \A r \in 1..MaxTasks :
    (r <= Len(runners) /\ Running(r) /\ wsState[runners[r].conn] = "open"
       /\ handled < MaxReqs) =>
      LET ws == runners[r].conn IN
      /\ ENABLED ( /\ HandleCancel(ws, runners[r].task_id)
                   /\ reply'.to = ws /\ Len(reply'.msgs) = 1 )
      /\ ENABLED ( /\ \E u \in UploadIds, k \in PlainChunks :
                        HandleUploadChunk(ws, u, k, TRUE)
                   /\ reply'.to = ws /\ Len(reply'.msgs) = 1
                   /\ runners' = runners )
      /\ (Len(handles) < MaxUploads /\ Cardinality(DOMAIN uploads) < MaxUploads)
           => ENABLED ( /\ HandleUpload(ws, <<"a">>, 2, TRUE)
                        /\ reply'.msgs[1].type = "upload_init"
                        /\ runners' = runners )
      /\ Len(runners) < MaxTasks
           => ENABLED ( /\ HandleConvert(ws, "in.mov", "out.mp4")
                        /\ reply'.msgs[1].type = "task_started"
                        /\ Len(runners') = Len(runners) + 1
                        /\ \A q \in {r, Len(runners')} :
                             runners'[q].pc \in {"pending", "reading"} )

\* C20 witness: two conversions of one websocket are both reading their
\* process's output, and the message handled last, after both were spawned,
\* is an upload_chunk of that websocket that was answered
C20_Witness ==
  /\ Len(runners) = 2
  /\ runners[1].conn = runners[2].conn
  /\ runners[1].pc = "reading" /\ runners[2].pc = "reading"
  /\ request.ws = runners[1].conn /\ request.action = "upload_chunk"
  /\ reply.msgs[1].type = "upload_progress"

\* C21: the bytes-written counter of a session never decreases, and every
\* upload_complete that reports success is for a session whose counter is
\* > 0 and whose destination file then holds exactly that many bytes.
C21_BytesWrittenMatchFile ==
  [][ /\ ~Handling({"upload"}) =>
           \A u \in DOMAIN uploads \cap DOMAIN uploads' :
             uploads'[u].uploaded_size >= uploads[u].uploaded_size
      /\ ( Handling({"upload_complete"})
           /\ reply'.msgs[1].type = "upload_complete" )
           => LET st == uploads[request'.id]
                  path == RealPath(st.file_path)
              IN /\ st.uploaded_size > 0
                 /\ path \in DOMAIN files'
                 /\ Len(files'[path]) = st.uploaded_size
    ]_vars

\* the sessions of an upload map that hold a file object
OpenSessions(map) == {u \in DOMAIN map : map[u].file_handle # 0}

\* C22: no two open upload sessions have the same destination file, and an
\* upload request leaves the file of every session that stays open with the
\* bytes it had.
C22_DestinationExclusive ==
  [][ /\ \A u, v \in OpenSessions(uploads') :
           u # v => RealPath(uploads'[u].file_path) # RealPath(uploads'[v].file_path)
      /\ Handling({"upload"}) =>
           \A u \in OpenSessions(uploads) :
             (u \in DOMAIN uploads' /\ uploads'[u] = uploads[u]) =>
               LET path == RealPath(uploads[u].file_path)
               IN path \in DOMAIN files' /\ files'[path] = files[path]
    ]_vars

\* C23: a convert request whose input_file or output_file is missing or empty
\* is answered with one error, "Missing input_file or output_file"; no task
\* id is allocated, no conversion is started, no task_started is sent and
\* the task map is unchanged.
C23_MissingFilesOneError ==
  [][ \A i \in InputFiles, o \in OutputFiles :
        ( /\ i = "" \/ o = ""
          /\ Handling({"convert"})
          /\ HandleConvert(request'.ws, i, o) )
        => /\ OneError
           /\ reply'.msgs[1].message = "Missing input_file or output_file"
           /\ UNCHANGED <<tasks, runners, taskLog>>
           /\ NoMutation
    ]_vars
\* a convert without file names has just been refused while a task is registered
C23_Witness ==
  /\ request.action = "convert"
  /\ reply = [to |-> request.ws,
              msgs |-> <<ErrorMsg(request.ws, "Missing input_file or output_file")>>]
  /\ tasks # <<>>

\* the conversion of runner r has ended and a terminal event carries its id
Finished(r) ==
  /\ runners[r].pc = "done"
  /\ runners[r].task_id \in DOMAIN taskLog
  /\ TerminalAt(taskLog[runners[r].task_id]) # {}
\* the request just handled is a cancel answered with task_cancelled
CancelAccepted ==
  Handling({"cancel"}) /\ reply'.msgs[1].type = "task_cancelled"
\* task_cancelled has been sent for the id before
CancelledBefore(id) ==
  id \in DOMAIN taskLog /\ \E k \in 1..Len(taskLog[id]) : taskLog[id][k].type = "task_cancelled"

\* C24: the task map loses an entry only through an accepted cancel; a task
\* whose conversion has delivered its terminal event stays registered under
\* its id, a cancel naming it is answered with task_cancelled, and a second
\* cancel of the same id is answered with an error.
C24_TasksShrinkOnlyByCancel ==
  [][ /\ ~CancelAccepted => DOMAIN tasks \subseteq DOMAIN tasks'
      /\ \A r \in 1..Len(runners) :
           (Finished(r) /\ Registered(r)) =>
             /\ ~(CancelAccepted /\ request'.id = runners[r].task_id) =>
                  \E id \in DOMAIN tasks' : tasks'[id] = r
             /\ (Handling({"cancel"}) /\ request'.id = runners[r].task_id) =>
                  CancelAccepted /\ request'.id \notin DOMAIN tasks'
      /\ (Handling({"cancel"}) /\ CancelledBefore(request'.id)) => OneError
    ]_vars
====
